---- MODULE Spec2Model ----
(***************************************************************************)
(* Incremental synchronisation of daily price bars (historicos) from the   *)
(* IOL web interface into PostgreSQL: parse_number, the selective upsert   *)
(* upsert_historico_selectivo and the per-ticker loop of main (main.py),   *)
(* with the outcomes of fetch_historico_iol_fast (fetch_historico_iol.py). *)
(*                                                                         *)
(* Strings are sequences of one-character strings.  Numbers are exact      *)
(* decimals m / 10^e kept in lowest form (no trailing zero in m when       *)
(* e > 0), tagged with their Python type; binary rounding of float is not  *)
(* modelled.  Every value is a record with the fields k, m, e, s.          *)
(***************************************************************************)
EXTENDS Integers, Sequences, FiniteSets, TLC

\* ------------------------------------------------------------------------
\* Bounds of the model
\* ------------------------------------------------------------------------
NumTickers == 2
MaxRows == 2
MaxTokLen == 3

\* ------------------------------------------------------------------------
\* Program constants
\* ------------------------------------------------------------------------
MAX_RETRIES == 3

\* ------------------------------------------------------------------------
\* Values
\* ------------------------------------------------------------------------
Val(kind, mant, exp) == [k |-> kind, m |-> mant, e |-> exp, s |-> <<>>]

\* Python None
None == Val("none", 0, 0)

\* float('nan')
NaN == Val("nan", 0, 0)

\* an exception leaving the evaluated expression
Raised == Val("raise", 0, 0)

\* a str
Str(chars) == [k |-> "str", m |-> 0, e |-> 0, s |-> chars]

RECURSIVE Pow10(_)
Pow10(n) == IF n = 0 THEN 1 ELSE 10 * Pow10(n - 1)

RECURSIVE Lowest(_, _, _)
Lowest(kind, mant, exp) ==
    IF exp > 0 /\ mant % 10 = 0 THEN Lowest(kind, mant \div 10, exp - 1)
    ELSE Val(kind, mant, exp)

\* a Python float of value mant / 10^exp
PyFloat(mant, exp) == Lowest("float", mant, exp)

\* a Python int
PyInt(n) == Val("int", n, 0)

Abs(n) == IF n < 0 THEN -n ELSE n

Max2(a, b) == IF a >= b THEN a ELSE b

\* a < b for two numbers, compared exactly at their common scale
NumLess(a, b) ==
    LET E == Max2(a.e, b.e)
    IN  a.m * Pow10(E - a.e) < b.m * Pow10(E - b.e)

\* a == b for two numbers (Python compares int, float and Decimal by value)
NumEq(a, b) == a.m = b.m /\ a.e = b.e

\* ------------------------------------------------------------------------
\* str methods and the built-ins float() and int()
\* ------------------------------------------------------------------------
Digit == {"0", "1", "2", "3", "4", "5", "6", "7", "8", "9"}

DigitVal(c) ==
    CASE c = "0" -> 0 [] c = "1" -> 1 [] c = "2" -> 2 [] c = "3" -> 3
      [] c = "4" -> 4 [] c = "5" -> 5 [] c = "6" -> 6 [] c = "7" -> 7
      [] c = "8" -> 8 [] c = "9" -> 9

\* c in s
Has(s, c) == \E j \in 1..Len(s) : s[j] = c

\* s.count(c)
Count(s, c) == Cardinality({j \in 1..Len(s) : s[j] = c})

\* s.rfind(c): the 0-based index of the last c, -1 when there is none
rfind(s, c) ==
    IF Has(s, c) THEN (CHOOSE j \in 1..Len(s) :
                          s[j] = c /\ \A l \in (j + 1)..Len(s) : s[l] # c) - 1
    ELSE -1

\* s.replace(c, r) for a one-character c and a replacement r
RECURSIVE replace(_, _, _)
replace(s, c, r) ==
    IF s = <<>> THEN <<>>
    ELSE (IF Head(s) = c THEN r ELSE <<Head(s)>>) \o replace(Tail(s), c, r)

\* s.strip()
RECURSIVE lstrip(_)
lstrip(s) == IF s # <<>> /\ Head(s) = " " THEN lstrip(Tail(s)) ELSE s

RECURSIVE rstrip(_)
rstrip(s) ==
    IF s # <<>> /\ s[Len(s)] = " " THEN rstrip(SubSeq(s, 1, Len(s) - 1)) ELSE s

strip(s) == rstrip(lstrip(s))

\* the value of a string of digits
RECURSIVE DigitsValue(_, _)
DigitsValue(s, acc) ==
    IF s = <<>> THEN acc ELSE DigitsValue(Tail(s), 10 * acc + DigitVal(Head(s)))

\* float(s) for a str over digits, '.', '-', '+', ' ' and the word nan:
\* a float, or ValueError (Raised)
float(s) ==
    LET t == strip(s)
        signed == t # <<>> /\ t[1] \in {"-", "+"}
        body == IF signed THEN Tail(t) ELSE t
        digits == replace(body, ".", <<>>)
        mant == DigitsValue(digits, 0)
    IN  IF body = <<"n", "a", "n">> THEN NaN
        ELSE IF /\ \A j \in 1..Len(body) : body[j] \in Digit \cup {"."}
                /\ Count(body, ".") <= 1
                /\ digits # <<>>
             THEN PyFloat(IF signed /\ t[1] = "-" THEN -mant ELSE mant,
                          IF Has(body, ".") THEN Len(body) - rfind(body, ".") - 1 ELSE 0)
             ELSE Raised

\* float(x) for a number x
tofloat(x) == IF x.k = "nan" THEN x ELSE [x EXCEPT !.k = "float"]

\* int(x) for a float or int x: truncation toward zero; ValueError for nan
int(x) ==
    IF x.k = "nan" THEN Raised
    ELSE PyInt(IF x.m >= 0 THEN x.m \div Pow10(x.e) ELSE -((-x.m) \div Pow10(x.e)))

\* the decimal digits of a natural number
RECURSIVE DigitsOf(_)
DigitsOf(n) ==
    LET d == <<CHOOSE c \in Digit : DigitVal(c) = n % 10>>
    IN  IF n < 10 THEN d ELSE DigitsOf(n \div 10) \o d

\* the last n decimal digits of a natural number, zeros included
RECURSIVE LastDigits(_, _)
LastDigits(m, n) ==
    IF n = 0 THEN <<>>
    ELSE LastDigits(m \div 10, n - 1)
         \o <<CHOOSE c \in Digit : DigitVal(c) = m % 10>>

\* str(x) for an int, or for a float that is 0 or has 1e-4 <= |x| < 1e16
\* (the floats that repr writes without an exponent)
str(x) ==
    LET sign == IF x.m < 0 THEN <<"-">> ELSE <<>>
        a == Abs(x.m)
    IN  IF x.k = "nan" THEN <<"n", "a", "n">>
        ELSE IF x.k = "int" THEN sign \o DigitsOf(a)
        ELSE sign \o DigitsOf(a \div Pow10(x.e)) \o <<".">>
             \o (IF x.e = 0 THEN <<"0">> ELSE LastDigits(a, x.e))

\* ------------------------------------------------------------------------
\* parse_number
\* ------------------------------------------------------------------------
\* Faulty variant: the comma is always the decimal separator when both occur
SeparatorsComaDecimal(s) ==
    IF Has(s, ",") /\ Has(s, ".")
    THEN replace(replace(s, ".", <<>>), ",", <<".">>)
    ELSE IF Has(s, ",") THEN replace(s, ",", <<>>)
    ELSE s

\* Faulty variant: a single dot is a thousands separator wherever it stands
SeparatorsLeadingDot(s) ==
    LET coma_pos == rfind(s, ",")
        punto_pos == rfind(s, ".")
    IN  IF Has(s, ",") /\ ~Has(s, ".") THEN replace(s, ",", <<>>)
        ELSE IF Has(s, ".") /\ ~Has(s, ",") THEN
            IF Count(s, ".") > 1 THEN replace(s, ".", <<>>)
            ELSE IF Len(s) - punto_pos - 1 > 3 THEN replace(s, ".", <<>>)
            ELSE s
        ELSE IF Has(s, ",") /\ Has(s, ".") THEN
            IF coma_pos > punto_pos
            THEN replace(replace(s, ".", <<>>), ",", <<".">>)
            ELSE replace(s, ",", <<>>)
        ELSE s

\* Faulty variant: three characters after a single dot already make it a
\* thousands separator
SeparatorsThreeDigits(s) ==
    LET coma_pos == rfind(s, ",")
        punto_pos == rfind(s, ".")
    IN  IF Has(s, ",") /\ ~Has(s, ".") THEN replace(s, ",", <<>>)
        ELSE IF Has(s, ".") /\ ~Has(s, ",") THEN
            IF Count(s, ".") > 1 THEN replace(s, ".", <<>>)
            ELSE IF punto_pos > 0 /\ Len(s) - punto_pos - 1 >= 3
                 THEN replace(s, ".", <<>>)
            ELSE s
        ELSE IF Has(s, ",") /\ Has(s, ".") THEN
            IF coma_pos > punto_pos
            THEN replace(replace(s, ".", <<>>), ",", <<".">>)
            ELSE replace(s, ",", <<>>)
        ELSE s

\* the separators of s rewritten as the try block does before float(s)
Separators(s) ==
    LET coma_pos == rfind(s, ",")
        punto_pos == rfind(s, ".")
    IN  IF Has(s, ",") /\ ~Has(s, ".") THEN replace(s, ",", <<>>)
        ELSE IF Has(s, ".") /\ ~Has(s, ",") THEN
            IF Count(s, ".") > 1 THEN replace(s, ".", <<>>)
            ELSE IF punto_pos > 0 THEN
                LET decimales_despues == Len(s) - punto_pos - 1
                IN  IF decimales_despues > 3 THEN replace(s, ".", <<>>) ELSE s
            ELSE s
        ELSE IF Has(s, ",") /\ Has(s, ".") THEN
            IF coma_pos > punto_pos
            THEN replace(replace(s, ".", <<>>), ",", <<".">>)
            ELSE replace(s, ",", <<>>)
        ELSE s

parse_number(val, is_int) ==
    IF val = None THEN None
    ELSE IF val.k \in {"int", "float", "nan"} THEN
        (IF is_int THEN int(val) ELSE tofloat(val))
    ELSE
        LET s == strip(val.s)
        IN  IF s = <<>> \/ s = <<"-">> THEN None
            ELSE LET num == float(Separators(s))
                 IN  IF num = Raised THEN None
                     ELSE IF num.k # "nan" /\ num.m < 0 THEN None
                     ELSE IF is_int
                          THEN (IF int(num) = Raised THEN None ELSE int(num))
                          ELSE num

\* ------------------------------------------------------------------------
\* DataFrames, the table historicos
\* ------------------------------------------------------------------------
\* pd.NaT, the result of pd.to_datetime(errors='coerce') on an unparseable cell
NaT == 0

\* the trading days of the model
Dates == {1, 2}

\* pd.to_datetime(x, errors='coerce') followed by .dt.date, for a Fecha cell x
to_datetime(x) == IF x \in Dates THEN x ELSE NaT

\* name.lower() in c.lower(), for the headers fetch_historico_iol_fast produces
Contains(name, c) ==
    \/ name = "fecha" /\ c = "Fecha"
    \/ name = "apertura" /\ c = "Apertura"
    \/ name = "maximo" /\ c = "Maximo"
    \/ name = "minimo" /\ c = "Minimo"
    \/ name = "cierre" /\ c = "Cierre"
    \/ name \in {"volumen", "volumen_nominal"} /\ c = "Volumen_Nominal"

\* col(name): the first column whose name contains name, else None
col(columns, name) ==
    IF \E j \in 1..Len(columns) : Contains(name, columns[j])
    THEN columns[CHOOSE j \in 1..Len(columns) :
                    /\ Contains(name, columns[j])
                    /\ \A l \in 1..(j - 1) : ~Contains(name, columns[l])]
    ELSE "None"

\* parse_number(row[c]) if c and row.get(c) is not None else None
Field(row, c, is_int) ==
    IF c # "None" /\ row[c] # None THEN parse_number(row[c], is_int) ELSE None

\* the key of a row of historicos
Key(ticker_id, fecha) == <<ticker_id, fecha>>

\* math.isclose(a, b, rel_tol=1e-9, abs_tol=1e-9) for two floats:
\* |a - b| <= max(1e-9 * max(|a|, |b|), 1e-9), computed at the common scale
isclose(a, b) ==
    IF a.k = "nan" \/ b.k = "nan" THEN FALSE
    ELSE LET E == Max2(a.e, b.e)
             A == a.m * Pow10(E - a.e)
             B == b.m * Pow10(E - b.e)
         IN  Abs(A - B) <= Max2(Max2(Abs(A), Abs(B)) \div 1000000000,
                                IF E >= 9 THEN Pow10(E - 9) ELSE 0)

isinstance_float(x) == x.k \in {"float", "nan"}

\* Faulty variant: every pair of numbers is compared with the tolerance
diffAlwaysClose(a, b) ==
    IF a = None /\ b = None THEN FALSE
    ELSE IF a = None \/ b = None THEN TRUE
    ELSE ~isclose(tofloat(a), tofloat(b))

\* diff(a, b) of upsert_historico_selectivo
diff(a, b) ==
    IF a = None /\ b = None THEN FALSE
    ELSE IF a = None \/ b = None THEN TRUE
    ELSE IF isinstance_float(a) \/ isinstance_float(b)
         THEN ~isclose(tofloat(a), tofloat(b))
         ELSE ~NumEq(a, b)

\* the tuple appended to records_to_write for a row
Record(ticker_id, columns, row) ==
    [ticker_id |-> ticker_id,
     fecha     |-> to_datetime(row[col(columns, "fecha")]),
     apertura  |-> Field(row, col(columns, "apertura"), FALSE),
     maximo    |-> Field(row, col(columns, "maximo"), FALSE),
     minimo    |-> Field(row, col(columns, "minimo"), FALSE),
     cierre    |-> Field(row, col(columns, "cierre"), FALSE),
     volumen   |-> Field(row, IF col(columns, "volumen") # "None"
                              THEN col(columns, "volumen")
                              ELSE col(columns, "volumen_nominal"), TRUE)]

\* the five stored fields of a record
Bar(r) ==
    [apertura |-> r.apertura, maximo |-> r.maximo, minimo |-> r.minimo,
     cierre |-> r.cierre, volumen |-> r.volumen]

\* cierre is not None and cierre < 0.01
Sospechoso(cierre) ==
    cierre # None /\ cierre.k # "nan" /\ NumLess(cierre, PyFloat(1, 2))

\* the if of lines 191-195: some field of the record differs from the stored row
Changed(r, existing_row) ==
    \/ diff(r.apertura, existing_row.apertura)
    \/ diff(r.maximo, existing_row.maximo)
    \/ diff(r.minimo, existing_row.minimo)
    \/ diff(r.cierre, existing_row.cierre)
    \/ diff(r.volumen, existing_row.volumen)

\* Faulty variant: the plausibility check on cierre is left out
RowStepNoFilter(r, emap) ==
    IF r.fecha \notin DOMAIN emap THEN "write"
    ELSE IF Changed(r, emap[r.fecha]) THEN "write"
    ELSE "skip"

\* Faulty variant: a row whose date is stored is never rewritten
RowStepInsertOnly(r, emap) ==
    IF Sospechoso(r.cierre) THEN "continue"
    ELSE IF r.fecha \notin DOMAIN emap THEN "write"
    ELSE "skip"

\* what the body of the for loop does with one row of df (fecha not NaT):
\* "continue" (dropped), "write" (appended) or "skip" (skipped += 1)
RowStep(r, emap) ==
    IF Sospechoso(r.cierre) THEN "continue"
    ELSE IF r.fecha \notin DOMAIN emap THEN "write"
    ELSE IF Changed(r, emap[r.fecha]) THEN "write"
    ELSE "skip"

\* a fecha_mas_reciente of None
NoFecha == -1

\* df is None: no DataFrame
NoFrame == [columns |-> <<>>, rows |-> <<>>]

\* Faulty variant: the rows with NaT dates stay in df
RecordsKeepNaT(ticker_id, frame) ==
    [j \in 1..Len(frame.rows) |->
        Record(ticker_id, frame.columns, frame.rows[j])]

\* the rows of df as records, after the rows with NaT dates are filtered out
Records(ticker_id, frame) ==
    LET all == [j \in 1..Len(frame.rows) |->
                   Record(ticker_id, frame.columns, frame.rows[j])]
    IN  SelectSeq(all, LAMBDA r : r.fecha # NaT)

\* sorted(df[fecha_col].unique().tolist()), as a set
Fechas(recs) == {recs[j].fecha : j \in 1..Len(recs)}

\* Faulty variant: the earliest date instead of the latest
SetMin(S) == CHOOSE x \in S : \A y \in S : x <= y

\* max(fechas)
SetMax(S) == CHOOSE x \in S : \A y \in S : y <= x

\* the SELECT of lines 135-150: the stored rows of the ticker on the dates
ExistingMap(storage, ticker_id, fechas) ==
    [d \in {f \in fechas : Key(ticker_id, f) \in DOMAIN storage} |->
        storage[Key(ticker_id, d)]]

\* Faulty variant: the date column is looked for only after the SELECT was sent
EarlyReturnAfterSelect ==
    [existing_map |-> <<>>, records_to_write |-> <<>>, skipped |-> 0,
     fecha_mas_reciente |-> NoFecha, queries |-> <<"SELECT">>]

\* return 0, 0, None before anything is read
EarlyReturn ==
    [existing_map |-> <<>>, records_to_write |-> <<>>, skipped |-> 0,
     fecha_mas_reciente |-> NoFecha, queries |-> <<>>]

\* upsert_historico_selectivo up to the call of execute_values: the return
\* values and locals of the function, run against the table as cur sees it
upsert_historico_selectivo(storage, ticker_id, frame) ==
    LET recs == Records(ticker_id, frame)
        fechas == Fechas(recs)
        emap == ExistingMap(storage, ticker_id, fechas)
        towrite == SelectSeq(recs, LAMBDA r : RowStep(r, emap) = "write")
        nskip == Cardinality({j \in 1..Len(recs) : RowStep(recs[j], emap) = "skip"})
    IN  IF frame.rows = <<>> THEN EarlyReturn
        ELSE IF col(frame.columns, "fecha") = "None" THEN EarlyReturn
        ELSE IF recs = <<>> THEN EarlyReturn
        ELSE [existing_map |-> emap, records_to_write |-> towrite,
              skipped |-> nskip, fecha_mas_reciente |-> SetMax(fechas),
              queries |-> <<"SELECT">>]

\* IS DISTINCT FROM over the five fields (NaN is not distinct from NaN)
IsDistinct(stored, r) == stored # Bar(r)

\* Faulty variant: ON CONFLICT DO NOTHING: a stored row is never updated
UpsertRowDoNothing(storage, r) ==
    LET key == <<r.ticker_id, r.fecha>>
    IN  IF key \in DOMAIN storage THEN storage
        ELSE [x \in DOMAIN storage \cup {key} |->
                 IF x = key THEN Bar(r) ELSE storage[x]]

\* Faulty variant: the rows of the ticker are replaced by the row written
UpsertRowReplacing(storage, r) ==
    LET key == <<r.ticker_id, r.fecha>>
    IN  [x \in {y \in DOMAIN storage : y[1] # r.ticker_id} \cup {key} |->
            IF x = key THEN Bar(r) ELSE storage[x]]

\* one VALUES row of the INSERT ... ON CONFLICT DO UPDATE ... WHERE statement
UpsertRow(storage, r) ==
    LET key == Key(r.ticker_id, r.fecha)
    IN  IF key \in DOMAIN storage /\ ~IsDistinct(storage[key], r) THEN storage
        ELSE [x \in DOMAIN storage \cup {key} |->
                 IF x = key THEN Bar(r) ELSE storage[x]]

\* the whole batch of execute_values
RECURSIVE execute_values(_, _)
execute_values(storage, recs) ==
    IF recs = <<>> THEN storage
    ELSE execute_values(UpsertRow(storage, Head(recs)), Tail(recs))

\* ------------------------------------------------------------------------
\* Inputs: cell texts, rows, frames, stored bars
\* ------------------------------------------------------------------------
Columns == <<"Fecha", "Apertura", "Maximo", "Minimo", "Cierre", "Volumen_Nominal">>

Row(fecha, apertura, maximo, minimo, cierre, volumen) ==
    [Fecha |-> fecha, Apertura |-> Str(apertura), Maximo |-> Str(maximo),
     Minimo |-> Str(minimo), Cierre |-> Str(cierre),
     Volumen_Nominal |-> Str(volumen)]

T_0_02 == <<"0", ".", "0", "2">>
T_0_03 == <<"0", ".", "0", "3">>
T_20390 == <<"2", "0", ",", "3", "9", "0", ".", "0", "0">>
T_10_5 == <<"1", "0", ".", "5">>
T_0_005 == <<"0", ".", "0", "0", "5">>
T_nan == <<"n", "a", "n">>
T_vol1 == <<"2", "0", "0", "0", "0", "0", "0", "0", "0", "1">>
T_vol2 == <<"2", "0", "0", "0", "0", "0", "0", "0", "0", "2">>

\* the rows a fetched table may hold for a Fecha cell f
RowA(f) == Row(f, T_0_02, T_20390, <<>>, T_10_5, T_vol1)
RowB(f) == Row(f, T_0_03, T_20390, <<>>, T_10_5, T_vol1)
RowC(f) == Row(f, T_0_02, T_20390, <<>>, T_0_005, T_vol1)
RowD(f) == Row(f, T_0_02, T_20390, T_nan, T_10_5, T_vol1)
RowE(f) == Row(f, T_0_02, T_20390, <<>>, T_10_5, T_vol2)

\* a Fecha cell that is no date
BadFecha == 3

CallRows ==
    UNION {{RowA(f), RowB(f), RowC(f), RowD(f), RowE(f)} :
              f \in Dates \cup {BadFecha}}

SeqsUpTo(S, n) == UNION {[1..l -> S] : l \in 0..n}

\* the DataFrames upsert_historico_selectivo is called with
CallFrames ==
    {[columns |-> Columns, rows |-> rs] : rs \in SeqsUpTo(CallRows, MaxRows)}
    \cup {[columns |-> Tail(Columns), rows |-> <<RowA(1)>>]}

\* bars already in historicos: the bar of RowA with apertura off by 5e-10,
\* and the bar of RowA without cierre
StoredBars ==
    {[apertura |-> PyFloat(200000005, 10), maximo |-> PyFloat(20390, 0),
      minimo |-> None, cierre |-> PyFloat(105, 1), volumen |-> PyInt(2000000001)],
     [apertura |-> PyFloat(2, 2), maximo |-> PyFloat(20390, 0),
      minimo |-> None, cierre |-> None, volumen |-> PyInt(2000000001)]}

\* the tickers of the SELECT of main, as ticker ids
Tickers == 1..NumTickers

\* the states of historicos for one ticker
StoragesOf(ticker_id) ==
    UNION {[{Key(ticker_id, d) : d \in D} -> StoredBars] : D \in SUBSET Dates}

\* the DataFrames fetch_historico_iol_fast returns with rows: one row per
\* date of some dates, in date order, or a table without the Fecha column
RECURSIVE RowsOf(_, _)
RowsOf(f, from) ==
    IF \A d \in DOMAIN f : d < from THEN <<>>
    ELSE LET d == CHOOSE x \in DOMAIN f :
                     x >= from /\ \A y \in DOMAIN f : y >= from => x <= y
         IN  <<IF f[d] = "A" THEN RowA(d) ELSE RowB(d)>> \o RowsOf(f, d + 1)

FetchFrames ==
    {[columns |-> Columns, rows |-> RowsOf(f, 1)] :
        f \in UNION {[D -> {"A", "B"}] :
                        D \in {X \in SUBSET Dates :
                                  X # {} /\ Cardinality(X) <= MaxRows}}}
    \cup {[columns |-> Tail(Columns), rows |-> <<RowA(1)>>]}

\* historicos before the run: every ticker holds the bar of RowA for date 1
SeededStorage ==
    [x \in {Key(t, 1) : t \in Tickers} |-> Bar(Record(x[1], Columns, RowA(1)))]

\* ------------------------------------------------------------------------
\* State
\* ------------------------------------------------------------------------
VARIABLES
    db,                 \* historicos as committed
    tx,                 \* historicos as seen by cur inside the open transaction
    i,                  \* the loop index of main (1-based position in tickers)
    pc,                 \* where main is within the iteration
    intento,            \* the index of the retry loop
    df,                 \* the fetched DataFrame
    existing_map,       \* locals and results of upsert_historico_selectivo
    records_to_write,
    skipped,
    fecha_mas_reciente,
    n_written,
    k,                  \* the next row of the batch execute_values sends
    queries,            \* the statements cur executed for the current ticker
    stats,              \* the counters of main
    salida,             \* per ticker, the result lines printed for it
    val,                \* the argument of a call of parse_number
    is_int,
    num                 \* the value the call returned

vars == <<db, tx, i, pc, intento, df, existing_map, records_to_write, skipped,
          fecha_mas_reciente, n_written, k, queries, stats, salida,
          val, is_int, num>>

callvars == <<val, is_int, num>>

Stats0 ==
    [actualizados |-> 0, sin_cambios |-> 0, errores |-> 0, sin_datos |-> 0,
     total_registros_nuevos |-> 0, total_registros_skip |-> 0]

\* the locals of an iteration before they are first assigned
LocalsUnset ==
    /\ df = NoFrame
    /\ existing_map = <<>>
    /\ records_to_write = <<>>
    /\ skipped = 0
    /\ fecha_mas_reciente = NoFecha
    /\ n_written = 0
    /\ k = 0
    /\ queries = <<>>
    /\ intento = 0

NoCall ==
    /\ val = None
    /\ is_int = FALSE
    /\ num = None

Init ==
    /\ db \in {<<>>, SeededStorage}
    /\ tx = db
    /\ i = 1
    /\ pc = "loop"
    /\ LocalsUnset
    /\ stats = Stats0
    /\ salida = [t \in Tickers |-> <<>>]
    /\ NoCall

\* ------------------------------------------------------------------------
\* main: the loop over tickers
\* ------------------------------------------------------------------------
Bump(field, n) == [stats EXCEPT ![field] = @ + n]

\* the iteration ends: the next ticker is taken, the locals are dead
NextTicker(lines) ==
    /\ salida' = [salida EXCEPT ![i] = @ \o lines]
    /\ i' = i + 1
    /\ pc' = "loop"
    /\ df' = NoFrame
    /\ existing_map' = <<>>
    /\ records_to_write' = <<>>
    /\ skipped' = 0
    /\ fecha_mas_reciente' = NoFecha
    /\ n_written' = 0
    /\ k' = 0
    /\ queries' = <<>>
    /\ intento' = 0

\* Faulty variant: the error is counted but the transaction is left open
ExceptNoRollback ==
    /\ stats' = Bump("errores", 1)
    /\ NextTicker(<<"error">>)
    /\ UNCHANGED <<db, tx, callvars>>

\* except Exception: the error is counted and the transaction rolled back
ExceptException ==
    /\ stats' = Bump("errores", 1)
    /\ tx' = db
    /\ NextTicker(<<"error">>)
    /\ UNCHANGED <<db, callvars>>

\* the top of an iteration: SELECT MAX(fecha), desde, the retry loop begins
BeginTicker ==
    /\ pc = "loop"
    /\ i <= NumTickers
    /\ pc' = "fetch"
    /\ intento' = 0
    /\ queries' = <<"SELECT MAX">>
    /\ UNCHANGED <<db, tx, i, df, existing_map, records_to_write, skipped,
                   fecha_mas_reciente, n_written, k, stats, salida, callvars>>

\* fetch_historico_iol_fast returns a table with rows
FetchData ==
    /\ pc = "fetch"
    /\ \E f \in FetchFrames : df' = f
    /\ pc' = "upsert"
    /\ UNCHANGED <<db, tx, i, intento, existing_map, records_to_write, skipped,
                   fecha_mas_reciente, n_written, k, queries, stats, salida,
                   callvars>>

\* if df is None or df.empty: counted in sin_datos, continue
SinDatos(lines) ==
    /\ stats' = Bump("sin_datos", 1)
    /\ NextTicker(lines \o <<"sin datos">>)
    /\ UNCHANGED <<db, tx, callvars>>

\* fetch_historico_iol_fast finds no idtitulo, no table, no thead or no rows
\* and returns an empty DataFrame
FetchEmpty ==
    /\ pc = "fetch"
    /\ SinDatos(<<>>)

\* the POST of fetch_historico_iol_fast fails with a requests.RequestException:
\* the function prints the error and returns an empty DataFrame
FetchRequestException ==
    /\ pc = "fetch"
    /\ SinDatos(<<"Error al descargar">>)

\* fetch_historico_iol_fast raises and another attempt is left
FetchRetry ==
    /\ pc = "fetch"
    /\ intento < MAX_RETRIES - 1
    /\ intento' = intento + 1
    /\ UNCHANGED <<db, tx, i, pc, df, existing_map, records_to_write, skipped,
                   fecha_mas_reciente, n_written, k, queries, stats, salida,
                   callvars>>

\* fetch_historico_iol_fast raises on the last attempt: raise last_error
FetchGiveUp ==
    /\ pc = "fetch"
    /\ intento >= MAX_RETRIES - 1
    /\ ExceptException

\* upsert_historico_selectivo up to execute_values
Upsert ==
    /\ pc = "upsert"
    /\ \E r \in {upsert_historico_selectivo(tx, i, df)} :
           /\ existing_map' = r.existing_map
           /\ records_to_write' = r.records_to_write
           /\ skipped' = r.skipped
           /\ fecha_mas_reciente' = r.fecha_mas_reciente
           /\ queries' = queries \o r.queries
           /\ IF r.records_to_write = <<>>
              THEN pc' = "commit" /\ k' = k
              ELSE pc' = "exec" /\ k' = 1
    /\ n_written' = 0
    /\ UNCHANGED <<db, tx, i, intento, df, stats, salida, callvars>>

\* execute_values sends the next row of the batch
ExecRow ==
    /\ pc = "exec"
    /\ k <= Len(records_to_write)
    /\ tx' = UpsertRow(tx, records_to_write[k])
    /\ k' = k + 1
    /\ queries' = IF k = 1 THEN queries \o <<"INSERT">> ELSE queries
    /\ IF k = Len(records_to_write)
       THEN pc' = "commit" /\ n_written' = Len(records_to_write)
       ELSE pc' = pc /\ n_written' = n_written
    /\ UNCHANGED <<db, i, intento, df, existing_map, records_to_write, skipped,
                   fecha_mas_reciente, stats, salida, callvars>>

\* execute_values raises: upsert_historico_selectivo re-raises, main catches
ExecFail ==
    /\ pc = "exec"
    /\ ExceptException

\* conn.commit() and the report of the result
Commit ==
    /\ pc = "commit"
    /\ db' = tx
    /\ stats' = [stats EXCEPT
                    !.actualizados = IF n_written > 0 THEN @ + 1 ELSE @,
                    !.sin_cambios = IF n_written > 0 THEN @ ELSE @ + 1,
                    !.total_registros_nuevos = @ + n_written,
                    !.total_registros_skip = @ + skipped]
    /\ NextTicker(IF n_written > 0 THEN <<"+">> ELSE <<"ok">>)
    /\ UNCHANGED <<tx, callvars>>

\* KeyboardInterrupt: break, the connection is closed without a commit
Interrupt ==
    /\ pc \in {"fetch", "upsert", "exec", "commit"}
    /\ pc' = "done"
    /\ tx' = db
    /\ UNCHANGED <<db, i, intento, df, existing_map, records_to_write, skipped,
                   fecha_mas_reciente, n_written, k, queries, stats, salida,
                   callvars>>

\* the list of tickers is exhausted: cur.close(), conn.close(), the summary
Finish ==
    /\ pc = "loop"
    /\ i > NumTickers
    /\ pc' = "done"
    /\ UNCHANGED <<db, tx, i, intento, df, existing_map, records_to_write,
                   skipped, fecha_mas_reciente, n_written, k, queries, stats,
                   salida, callvars>>

Next ==
    \/ BeginTicker
    \/ FetchData
    \/ FetchEmpty
    \/ FetchRequestException
    \/ FetchRetry
    \/ FetchGiveUp
    \/ Upsert
    \/ ExecRow
    \/ ExecFail
    \/ Commit
    \/ Interrupt
    \/ Finish

Spec == Init /\ [][Next]_vars

\* ------------------------------------------------------------------------
\* One call of upsert_historico_selectivo, committed or rolled back as main
\* does, on any frame and any stored rows of the ticker
\* ------------------------------------------------------------------------
InitUpsert ==
    /\ db \in StoragesOf(1)
    /\ tx = db
    /\ i = 1
    /\ pc = "upsert"
    /\ df \in CallFrames
    /\ existing_map = <<>>
    /\ records_to_write = <<>>
    /\ skipped = 0
    /\ fecha_mas_reciente = NoFecha
    /\ n_written = 0
    /\ k = 0
    /\ queries = <<>>
    /\ intento = 0
    /\ stats = Stats0
    /\ salida = [t \in Tickers |-> <<>>]
    /\ NoCall

NextUpsert ==
    \/ Upsert
    \/ ExecRow
    \/ ExecFail
    \/ Commit

SpecUpsert == InitUpsert /\ [][NextUpsert]_vars

\* ------------------------------------------------------------------------
\* One call of parse_number
\* ------------------------------------------------------------------------
Alphabet == {"0", "1", "5", ",", ".", "-", " "}

T_20_390 == <<"2", "0", ".", "3", "9", "0", ",", "0", "0">>
T_1_5_12345 == <<"1", ",", "5", ".", "1", "2", "3", "4", "5">>
T_1234_5_6 == <<"1", ",", "2", "3", "4", ".", "5", ",", "6">>

T_p12345 == <<".", "1", "2", "3", "4", "5">>
T_1_2345 == <<"1", ".", "2", "3", "4", "5">>
T_20_5 == <<"2", "0", ".", "5">>
T_20_500 == <<"2", "0", ".", "5", "0", "0">>
T_1_2_3_4 == <<"1", ",", "2", ".", "3", ".", "4">>
T_1234 == <<"1", "2", "3", "4">>
T_m5 == <<"-", "5">>

\* the texts parse_number is called with
Tokens ==
    SeqsUpTo(Alphabet, MaxTokLen)
    \cup {T_20390, T_20_390, T_1_5_12345, T_1234_5_6, T_nan, T_10_5, T_0_005,
          T_p12345, T_1_2345, T_20_5, T_20_500, T_1_2_3_4, T_1234, T_m5}

\* the values parse_number is called with: None, numbers, texts
CallValues ==
    {None, PyInt(5), PyInt(-5), PyFloat(25, 1), PyFloat(-25, 1)}
    \cup {Str(s) : s \in Tokens}

InitParse ==
    /\ val \in CallValues
    /\ is_int \in BOOLEAN
    /\ num = None
    /\ pc = "call"
    /\ db = <<>>
    /\ tx = db
    /\ i = 1
    /\ LocalsUnset
    /\ stats = Stats0
    /\ salida = [t \in Tickers |-> <<>>]

\* the call returns
ParseNumber ==
    /\ pc = "call"
    /\ num' = parse_number(val, is_int)
    /\ pc' = "return"
    /\ UNCHANGED <<db, tx, i, intento, df, existing_map, records_to_write,
                   skipped, fecha_mas_reciente, n_written, k, queries, stats,
                   salida, val, is_int>>

NextParse == ParseNumber

SpecParse == InitParse /\ [][NextParse]_vars

\* ------------------------------------------------------------------------
\* Properties
\* ------------------------------------------------------------------------
\* cierre is a number below 0.01
BelowCent(c) == c.k \in {"float", "int"} /\ c.m * 100 < Pow10(c.e)

\* the rows of the frame with a parseable date whose close is not below 0.01
ValidRecords(ticker_id, frame) ==
    IF frame.rows = <<>> \/ ~\E j \in 1..Len(frame.columns) : frame.columns[j] = "Fecha"
    THEN <<>>
    ELSE SelectSeq(Records(ticker_id, frame), LAMBDA r : ~BelowCent(r.cierre))

Range(s) == {s[j] : j \in 1..Len(s)}

\* two prices are within the tolerance of 1e-9
WithinTolerance(a, b) == a.k # "nan" /\ b.k # "nan" /\ isclose(a, b)

\* a candidate price differs from the stored one
PriceDiffers(a, b) ==
    \/ (a = None) # (b = None)
    \/ a # None /\ b # None /\ ~WithinTolerance(a, b)

\* a candidate volume differs from the stored one
VolumeDiffers(a, b) ==
    \/ (a = None) # (b = None)
    \/ a # None /\ b # None /\ (a.m # b.m \/ a.e # b.e)

\* at least one of the five fields of the candidate differs from the stored bar
SomeFieldDiffers(r, bar) ==
    \/ PriceDiffers(r.apertura, bar.apertura)
    \/ PriceDiffers(r.maximo, bar.maximo)
    \/ PriceDiffers(r.minimo, bar.minimo)
    \/ PriceDiffers(r.cierre, bar.cierre)
    \/ VolumeDiffers(r.volumen, bar.volumen)

\* upsert_historico_selectivo has returned, or is sending its batch
Reconciled == pc \in {"exec", "commit"}

\* upsert_historico_selectivo has returned and its batch is applied
Applied == pc = "commit"

\* the second pass: the same frame against the table as it is now
SecondPass == upsert_historico_selectivo(tx, i, df)

\* the valid rows of the frame that share a date agree in all five fields
\* (a row with a NaN field agrees with no row, itself included)
DatesAgree ==
    LET v == ValidRecords(i, df)
    IN  \A a \in 1..Len(v), b \in 1..Len(v) :
            v[a].fecha = v[b].fecha => ~SomeFieldDiffers(v[a], Bar(v[b]))

\* C1 as stated: after the write-set of a pass is applied, a second pass over
\* the same CandidateSet returns an empty write-set and skipped equal to the
\* number of distinct valid candidate dates.
C1_SecondPassSkipsDates ==
    Applied =>
        /\ SecondPass.records_to_write = <<>>
        /\ SecondPass.skipped = Cardinality(Fechas(ValidRecords(i, df)))

\* C1 as amended: when the valid rows that share a date agree in all five
\* fields within tolerance and hold no NaN, the second pass returns an empty
\* write-set and skipped equal to the number of valid rows.
C1_SecondPassSkipsRows ==
    Applied /\ DatesAgree =>
        /\ SecondPass.records_to_write = <<>>
        /\ SecondPass.skipped = Len(ValidRecords(i, df))

\* a pass wrote rows, and two agreeing valid rows share a date
C1_Witness ==
    /\ Applied
    /\ DatesAgree
    /\ n_written > 0
    /\ tx # db
    /\ Len(ValidRecords(i, df)) > Cardinality(Fechas(ValidRecords(i, df)))

\* the stored bar of the date of r before the pass, if there is one
HasStored(r) == <<r.ticker_id, r.fecha>> \in DOMAIN db

Stored(r) == db[<<r.ticker_id, r.fecha>>]

\* the valid rows the pass had to count as unchanged
Unchanged(v) ==
    {j \in 1..Len(v) : HasStored(v[j]) /\ ~SomeFieldDiffers(v[j], Stored(v[j]))}

\* C2: a valid candidate row is emitted as a write, with its five fields, when
\* storage has no row for its date or some field differs (one side absent,
\* prices unequal beyond the 1e-9 tolerance, volumes unequal); a row no field
\* of which differs is counted in skipped and is not in the write-set.
C2_RowClassification ==
    Reconciled =>
        LET v == ValidRecords(i, df)
        IN  /\ \A j \in 1..Len(v) :
                   /\ ~HasStored(v[j]) => v[j] \in Range(records_to_write)
                   /\ HasStored(v[j]) /\ SomeFieldDiffers(v[j], Stored(v[j]))
                          => v[j] \in Range(records_to_write)
                   /\ HasStored(v[j]) /\ ~SomeFieldDiffers(v[j], Stored(v[j]))
                          => v[j] \notin Range(records_to_write)
            /\ skipped = Cardinality(Unchanged(v))

\* one pass rewrote a row for its volume alone and skipped a row whose
\* apertura is within tolerance of the stored one without being equal to it
C2_Witness ==
    /\ Reconciled
    /\ skipped > 0
    /\ \E r \in Range(records_to_write) :
           HasStored(r) /\ VolumeDiffers(r.volumen, Stored(r).volumen)
    /\ \E j \in Unchanged(ValidRecords(i, df)) :
           ValidRecords(i, df)[j].apertura # Stored(ValidRecords(i, df)[j]).apertura

\* two stored fields equal, within tolerance, the fields of a candidate
SameField(stored, cand) ==
    \/ stored = cand
    \/ stored # None /\ cand # None /\ WithinTolerance(stored, cand)

SameVolume(stored, cand) == stored = cand

SameBar(bar, r) ==
    /\ SameField(bar.apertura, r.apertura)
    /\ SameField(bar.maximo, r.maximo)
    /\ SameField(bar.minimo, r.minimo)
    /\ SameField(bar.cierre, r.cierre)
    /\ SameVolume(bar.volumen, r.volumen)

\* C3: after a pass and the application of its write-set, every date with a
\* valid candidate row has a stored bar whose five fields equal, within
\* tolerance, the normalized fields of a candidate row of that date.
C3_StorageInSync ==
    Applied =>
        LET v == ValidRecords(i, df)
        IN  \A j \in 1..Len(v) :
                /\ <<i, v[j].fecha>> \in DOMAIN tx
                /\ \E l \in 1..Len(v) :
                       /\ v[l].fecha = v[j].fecha
                       /\ SameBar(tx[<<i, v[j].fecha>>], v[l])

\* the pass rewrote a stored bar and left another, equal within tolerance
C3_Witness ==
    /\ Applied
    /\ skipped > 0
    /\ \E r \in Range(records_to_write) :
           HasStored(r) /\ tx[<<i, r.fecha>>] # Stored(r)

\* C4: a candidate row whose normalized close is present and below 0.01 is
\* never in the write-set, so no stored bar is created or changed from it.
C4_NoSuspiciousClose ==
    /\ Reconciled => \A r \in Range(records_to_write) : ~BelowCent(r.cierre)
    /\ \A x \in DOMAIN tx :
           BelowCent(tx[x].cierre) => x \in DOMAIN db /\ db[x] = tx[x]

\* a pass over a frame with a row of close 0.005 wrote another row
C4_Witness ==
    /\ Applied
    /\ n_written > 0
    /\ \E r \in Range(Records(i, df)) :
           BelowCent(r.cierre) /\ <<i, r.fecha>> \notin DOMAIN tx

\* the keys of the write-set main is about to commit
WriteKeys == {<<r.ticker_id, r.fecha>> : r \in Range(records_to_write)}

\* C5: a stored bar whose (instrument, date) is not a key of the applied
\* write-set keeps its five fields, and no stored bar is ever removed.
C5_Frame ==
    [][/\ DOMAIN db \subseteq DOMAIN db'
       /\ \A x \in DOMAIN db : x \notin WriteKeys => db'[x] = db[x]
       /\ \A x \in DOMAIN db' : x \notin DOMAIN db => x \in WriteKeys]_vars

\* the first ticker's write-set was committed while bars of the second
\* ticker and a bar of the first outside the write-set were stored
C5_Witness ==
    /\ i = 2
    /\ pc = "loop"
    /\ salida[1] = <<"+">>
    /\ <<2, 1>> \in DOMAIN db
    /\ <<1, 1>> \in DOMAIN db
    /\ <<1, 2>> \in DOMAIN db
    /\ stats.total_registros_nuevos = 1

\* C6: the committed table changes only by the whole write-set of the current
\* ticker; a failure leaves the committed table as it was, discards what the
\* transaction held, and the loop goes on with the next ticker.
C6_AtomicPerTicker ==
    [][/\ db' # db => pc = "commit" /\ db' = execute_values(db, records_to_write)
       /\ stats'.errores # stats.errores =>
              /\ db' = db
              /\ tx' = db
              /\ i' = i + 1
              /\ pc' = "loop"]_vars

\* the second ticker is in the middle of a batch of two rows, one of them
\* sent, after the first ticker's batch was committed
C6_Witness ==
    /\ i = 2
    /\ pc = "exec"
    /\ k = 2
    /\ Len(records_to_write) = 2
    /\ tx # db
    /\ salida[1] = <<"+">>

\* C7: without a column whose name contains 'fecha' the function returns an
\* empty write-set, skipped 0 and no date, and neither reads nor writes.
C7_NoDateColumn ==
    pc \in {"exec", "commit"} /\ (\A j \in 1..Len(df.columns) : df.columns[j] # "Fecha") =>
        /\ pc = "commit"
        /\ records_to_write = <<>>
        /\ n_written = 0
        /\ skipped = 0
        /\ fecha_mas_reciente = NoFecha
        /\ "SELECT" \notin Range(queries)
        /\ "INSERT" \notin Range(queries)
        /\ tx = db

\* the function has returned for a frame with rows and no Fecha column
C7_Witness ==
    /\ pc = "commit"
    /\ df.rows # <<>>
    /\ \A j \in 1..Len(df.columns) : df.columns[j] # "Fecha"
    /\ db # <<>>

\* C8 as stated: when no row remains after the rows with unparseable dates
\* and the rows with close below 0.01 are taken out, the function returns an
\* empty write-set, skipped 0 and no date.
C8_NothingValidReturnsNone ==
    Reconciled /\ ValidRecords(i, df) = <<>> =>
        /\ records_to_write = <<>>
        /\ skipped = 0
        /\ fecha_mas_reciente = NoFecha

\* the dates of the rows whose Fecha cell parses
ParsedDates ==
    IF \E j \in 1..Len(df.columns) : df.columns[j] = "Fecha"
    THEN {df.rows[j].Fecha : j \in 1..Len(df.rows)} \cap Dates
    ELSE {}

\* C8 as amended: then the function returns an empty write-set and skipped 0;
\* the date returned is None when no row has a parseable date and otherwise
\* the latest parseable date, rows of close below 0.01 included.
C8_NothingValidReturnsLatest ==
    Reconciled /\ ValidRecords(i, df) = <<>> =>
        /\ records_to_write = <<>>
        /\ skipped = 0
        /\ ParsedDates = {} => fecha_mas_reciente = NoFecha
        /\ ParsedDates # {} =>
               /\ fecha_mas_reciente \in ParsedDates
               /\ \A d \in ParsedDates : d <= fecha_mas_reciente

\* every row of a frame of two dates was dropped for its close
C8_Witness ==
    /\ pc = "commit"
    /\ ValidRecords(i, df) = <<>>
    /\ Cardinality(ParsedDates) = 2
    /\ fecha_mas_reciente = 2

\* C9: the fetch of a ticker is attempted at most MAX_RETRIES times, a ticker
\* whose fetch failed is printed and counted as an error, and the run goes on.
C9_FetchFailureIsError ==
    /\ intento < MAX_RETRIES
    /\ \A t \in Tickers :
           "Error al descargar" \in Range(salida[t]) => "error" \in Range(salida[t])
    /\ \A t \in Tickers :
           "Error al descargar" \in Range(salida[t]) \/ "error" \in Range(salida[t])
               => i > t

\* the text with its commas and dots exchanged
RECURSIVE Swapped(_)
Swapped(s) ==
    IF s = <<>> THEN <<>>
    ELSE <<IF Head(s) = "," THEN "." ELSE IF Head(s) = "." THEN "," ELSE Head(s)>>
         \o Swapped(Tail(s))

\* the text without the characters c
Without(s, c) == SelectSeq(s, LAMBDA x : x # c)

\* the text read with the separator that stands last in it as the decimal
\* point and the other separator as the thousands separator
LaterIsDecimal(s) ==
    LET last == CHOOSE j \in 1..Len(s) :
                    /\ s[j] \in {",", "."}
                    /\ \A l \in (j + 1)..Len(s) : s[l] \notin {",", "."}
        thousands == IF s[last] = "," THEN "." ELSE ","
        kept == Without(s, thousands)
    IN  [j \in 1..Len(kept) |-> IF kept[j] = s[last] THEN "." ELSE kept[j]]

BothSeparators(s) == (\E j \in 1..Len(s) : s[j] = ",") /\ (\E j \in 1..Len(s) : s[j] = ".")

\* C10: a text with a comma and a dot is read with the separator that occurs
\* later as the decimal point and the other as the thousands separator, so a
\* text and the text with commas and dots exchanged normalize to one value,
\* as "20,390.00" and "20.390,00" do to 20390.
C10_LaterSeparatorIsDecimal ==
    pc = "return" /\ val.k = "str" /\ BothSeparators(val.s) =>
        /\ num = parse_number(Str(Swapped(val.s)), is_int)
        /\ LET read == float(LaterIsDecimal(val.s))
           IN  read.k = "float" /\ read.m >= 0 =>
                   num = IF is_int THEN int(read) ELSE read
        /\ val.s \in {T_20390, T_20_390} /\ ~is_int => num = PyFloat(20390, 0)

\* the call returned 20390 for the text "20.390,00"
C10_Witness ==
    /\ pc = "return"
    /\ val = Str(T_20_390)
    /\ ~is_int
    /\ num = PyFloat(20390, 0)

\* the texts with exactly one dot and no comma
SingleDot(s) == Count(s, ".") = 1 /\ ~Has(s, ",")

\* the number of digits after the last dot of s
DigitsAfterDot(s) ==
    Cardinality({j \in 1..Len(s) : j > rfind(s, ".") + 1 /\ s[j] \in Digit})

\* the number of characters after the dot of a text with one dot
CharsAfterDot(s) == Cardinality({j \in 1..Len(s) : \E l \in 1..(j - 1) : s[l] = "."})

\* what a call returns when the text it hands to float is t
Reading(t, as_integer) ==
    LET read == float(t)
    IN  IF read = Raised THEN None
        ELSE IF read.k = "nan" THEN (IF as_integer THEN None ELSE read)
        ELSE IF read.m < 0 THEN None
        ELSE IF as_integer THEN PyInt(read.m \div Pow10(read.e))
        ELSE read

\* C11 as stated: a text with exactly one dot and no comma is read without
\* the dot when more than three digits follow the dot, and with the dot as
\* the decimal point otherwise, wherever the dot stands; "20.5" gives 20.5.
C11_SingleDotAnywhere ==
    pc = "return" /\ val.k = "str" /\ SingleDot(strip(val.s)) =>
        LET s == strip(val.s)
        IN  /\ num = IF DigitsAfterDot(s) > 3
                      THEN Reading(Without(s, "."), is_int)
                      ELSE Reading(s, is_int)
            /\ s = T_20_5 /\ ~is_int => num = PyFloat(205, 1)

\* C11 as amended: the dot is stripped when it is not the first character of
\* the trimmed text and more than three characters follow it, and kept as the
\* decimal point otherwise; a leading dot is always the decimal point.
C11_SingleDotNotLeading ==
    pc = "return" /\ val.k = "str" /\ SingleDot(strip(val.s)) =>
        LET s == strip(val.s)
        IN  /\ num = IF s[1] # "." /\ CharsAfterDot(s) > 3
                      THEN Reading(Without(s, "."), is_int)
                      ELSE Reading(s, is_int)
            /\ s = T_20_5 /\ ~is_int => num = PyFloat(205, 1)
            /\ s = T_1_2345 /\ ~is_int => num = PyFloat(12345, 0)
            /\ s = T_p12345 /\ ~is_int => num = PyFloat(12345, 5)

\* the call returned 0.12345 for the text ".12345"
C11_Witness ==
    /\ pc = "return"
    /\ val = Str(T_p12345)
    /\ ~is_int
    /\ num = PyFloat(12345, 5)

\* C12 as stated: the text "20.500" normalizes to 20500.0, its dot read as a
\* thousands separator.
C12_DotOfThreeIsThousands ==
    pc = "return" /\ val = Str(T_20_500) /\ ~is_int => num = PyFloat(20500, 0)

\* C12 as amended: the text "20.500" normalizes to 20.5 (20 as an integer):
\* exactly three digits follow its dot, which is kept as the decimal point.
C12_DotOfThreeIsDecimal ==
    pc = "return" /\ val = Str(T_20_500) =>
        num = IF is_int THEN PyInt(20) ELSE PyFloat(205, 1)

\* the call returned 20.5 for the text "20.500"
C12_Witness ==
    /\ pc = "return"
    /\ val = Str(T_20_500)
    /\ ~is_int
    /\ num = PyFloat(205, 1)

\* C13: a text that normalizes to a number normalizes to the same number
\* again after that number is written with str, also when the number has more
\* than three fractional digits, as the result of "1,5.12345" has.
C13_IdempotentThroughStr ==
    pc = "return" /\ val.k = "str" /\ num # None =>
        parse_number(Str(str(num)), is_int) = num

\* the text with every comma and every dot removed
NoSeparators(s) == Without(Without(s, ","), ".")

\* C14: no call returns a negative number: for a text or a number, and for
\* either value of is_int, the result is None or a number that is at least 0;
\* the empty text, "-" and "-5" give None.
C14_NeverNegative ==
    pc = "return" =>
        /\ num = None \/ (num.k \in {"int", "float"} /\ num.m >= 0)
        /\ val \in {Str(<<>>), Str(<<"-">>), Str(T_m5)} => num = None

\* C15: when float raises on the text with its separators resolved, the call
\* reads the text with every comma and dot removed instead, and returns None
\* only when that raises too; "1,2.3.4" gives 1234.
C15_FallbackWithoutSeparators ==
    pc = "return" /\ val.k = "str" /\ strip(val.s) \notin {<<>>, <<"-">>}
        /\ float(Separators(strip(val.s))) = Raised =>
            /\ num = Reading(NoSeparators(strip(val.s)), is_int)
            /\ val.s = T_1_2_3_4 => num = IF is_int THEN PyInt(1234)
                                          ELSE PyFloat(1234, 0)

\* df has a column whose name contains 'fecha'
HasDateColumn == \E j \in 1..Len(df.columns) : df.columns[j] = "Fecha"

\* the rows of df whose Fecha cell is a date and whose Cierre cell does not
\* normalize to a number below 0.01, by position
CountedRows ==
    {j \in 1..Len(df.rows) :
        /\ df.rows[j].Fecha \in Dates
        /\ ~BelowCent(parse_number(df.rows[j].Cierre, FALSE))}

\* C16: when df has a date column, every row with a parseable date whose close
\* is not below 0.01 is counted exactly once, in the write-set or in skipped;
\* rows with unparseable dates and rows dropped for their close are in neither.
C16_RowAccounting ==
    Reconciled /\ HasDateColumn =>
        /\ Len(records_to_write) + skipped = Cardinality(CountedRows)
        /\ \A r \in Range(records_to_write) :
               r.fecha \in Dates /\ ~BelowCent(r.cierre)

\* a pass over a frame with a row of no date and a row of low close, or with
\* one of them and a counted row, has returned
C16_Witness ==
    /\ Reconciled
    /\ HasDateColumn
    /\ Len(df.rows) = MaxRows
    /\ Cardinality(CountedRows) < Len(df.rows)
    /\ \E j \in 1..Len(df.rows) : df.rows[j].Fecha = BadFecha
    /\ Len(records_to_write) + skipped = 1

====
